---- MODULE Spec2Model ----
(***************************************************************************)
(* Model of src/app.js (p2p-transfer): one page instance of the session    *)
(* controller, its PeerJS peers and data channels, the heartbeat timers,   *)
(* the outbound send loops (async sendFile) and the inbound transfers.     *)
(*                                                                         *)
(* The PeerJS objects are external to src/app.js.  They are modelled by    *)
(* what app.js observes of them: a channel's `open` flag, the events it    *)
(* dispatches to the handlers setupConnection registers, and send(), which *)
(* either hands the message over or throws.  A channel's 'close' event is  *)
(* delivered as a step of its own, at any time after the channel closed.   *)
(*                                                                         *)
(* Time is Date.now() in units of HEARTBEAT_TIMEOUT (15000 ms); a chunk is *)
(* CHUNK_SIZE bytes, scaled from 64 KiB to 1 byte.                          *)
(***************************************************************************)
EXTENDS Integers, Sequences, FiniteSets, TLC

\* ----- bounds of the model
MaxPeers == 1        \* Peer objects ever constructed
MaxChans == 2        \* data channels ever created
MaxTime == 4         \* last value of the clock
MaxOut == 2          \* outbound transfers ever started
MaxFileSize == 2     \* bytes of a file handed to handleFiles
MaxFiles == 2        \* files of one handleFiles call
MaxInSize == 2       \* declared size of an inbound file; chunk indices 0..MaxInSize
MaxReceived == 3     \* bytes the remote peer sends for one announced transfer
MaxArtifact == 4     \* bytes of an artifact given to the codec
MaxChunkSize == 3    \* chunk sizes given to the codec: 1..MaxChunkSize

\* ----- program constants (CONFIG), scaled
CHUNK_SIZE == 1          \* CONFIG.CHUNK_SIZE, in bytes
HEARTBEAT_TIMEOUT == 1   \* CONFIG.HEARTBEAT_TIMEOUT, in time units
TRANSFER_TIMEOUT == 2    \* CONFIG.TRANSFER_TIMEOUT, in time units
YIELD_EVERY == 10        \* the `i % 10 === 0` of the send loop

Bytes == {0, 1}
PeerIds == 1..MaxPeers
ChanIds == 1..MaxChans
OutIds == 1..MaxOut
InIds == {"X", "Y"}   \* the fileIds the remote peer uses
TimerKinds == {"heartbeatTimer", "heartbeatCheckTimer", "transferCheckTimer"}

VARIABLES
    peer,            \* the global `peer`: 0 (null) or a Peer object
    peers,           \* each Peer object: unused, host, guest, guestOpen, destroyed
    connection,      \* the global `connection`: 0 (null) or a channel
    chan,            \* each channel: unused, connecting, open (conn.open), closed
    owner,           \* the Peer object a channel belongs to (0: none yet)
    closeEvt,        \* channels whose 'close' event is still to be dispatched
    timers,          \* the three timer globals: TRUE when not null
    live,            \* per kind, the number of intervals set and not cleared
    lastHeartbeat,   \* the global `lastHeartbeat`
    now,             \* Date.now()
    sends,           \* the sendFile invocations, each with its position
    sendLog,         \* the file messages handed to a channel, in send() order
    delivered,       \* how many of them the channel has dispatched at its far end
    outBar,          \* per outbound fileId, its progress bar in sendingFilesList
    receivingFiles,  \* the global `receivingFiles`: fileId -> transfer
    completedFiles,  \* the global `completedFiles`: fileId -> assembled blob
    inBar,           \* per inbound fileId, its progress bar in receivedFilesList
    inStatus,        \* per inbound fileId, its status element in receivedFilesList
    codec,           \* one artifact being split and reassembled (SpecCodec)
    notified,        \* per channel, the session-ending notices shown for it
    ev               \* what the last step was and what it emitted

sessVars == <<peer, peers, connection, chan, owner, closeEvt>>
timerVars == <<timers, live, lastHeartbeat>>
outVars == <<sends, sendLog, outBar>>
inVars == <<receivingFiles, completedFiles, inBar, inStatus>>
vars == <<peer, peers, connection, chan, owner, closeEvt, timers, live,
          lastHeartbeat, now, sends, sendLog, delivered, outBar, receivingFiles,
          completedFiles, inBar, inStatus, codec, notified, ev>>

\* what every step but Tick, the codec's own and a dispatch of the channel
\* leaves alone
frozen == <<now, codec, delivered>>

\* ----- helpers
Min(a, b) == IF a < b THEN a ELSE b

\* variant of Ceil that rounds down, as `Math.floor` would
Floor(a, b) == a \div b

\* Math.ceil(a / b) for a >= 0, b >= 1
Ceil(a, b) == (a + b - 1) \div b

\* Blob.slice(start, end) on a byte sequence (0-based, end exclusive)
Slice(s, start, end) == SubSeq(s, start + 1, Min(end, Len(s)))

RECURSIVE Flatten(_)
\* concatenation of a sequence of sequences
Flatten(ss) == IF ss = <<>> THEN <<>> ELSE Head(ss) \o Flatten(Tail(ss))

\* the smallest element of a non-empty set of integers
Least(S) == CHOOSE x \in S : \A y \in S : x <= y

\* the file of n bytes the model hands to handleFiles
File(n) == [k \in 1..n |-> k % 2]

\* JS objects used as maps (receivingFiles, completedFiles)
EmptyMap == [x \in {} |-> 0]
Put(map, k, v) == [x \in DOMAIN map \cup {k} |-> IF x = k THEN v ELSE map[x]]
Del(map, k) == [x \in DOMAIN map \ {k} |-> map[x]]

\* a progress bar <<n, d>> shows n/d*100 percent; NoBar: no such element
NoBar == <<-1, 1>>
\* what a step emitted: the send() calls and the toasts of operation op; a
\* step that emits nothing leaves Quiet
NoMsg == [type |-> "none"]
Quiet == [op |-> "quiet", msg |-> NoMsg, sent |-> <<>>, toast |-> <<>>]
Event(op, sent, toast) ==
    IF sent = <<>> /\ toast = <<>> THEN Quiet
    ELSE [op |-> op, msg |-> NoMsg, sent |-> sent, toast |-> toast]

\* the step that dispatched the inbound message m
DataEvent(m, toast) == [op |-> "data", msg |-> m, sent |-> <<>>, toast |-> toast]

\* ----- wire messages (section "数据处理" and the send sites)
HeartbeatMsg(ts) == [type |-> "heartbeat", timestamp |-> ts]
TextMsg(content, ts) == [type |-> "text", content |-> content, timestamp |-> ts]
FileMetaMsg(fileId, size, total) ==
    [type |-> "file-meta", fileId |-> fileId, size |-> size, totalChunks |-> total]
FileChunkMsg(fileId, idx, data) ==
    [type |-> "file-chunk", fileId |-> fileId, chunkIndex |-> idx, data |-> data]
FileCompleteMsg(fileId) == [type |-> "file-complete", fileId |-> fileId]

\* one connection.send(m) on channel c: handed over (ok) or thrown
Sent(m, c, ok) == [msg |-> m, chan |-> c, ok |-> ok]

RECURSIVE Msgs(_)
\* the messages a sequence of send() calls handed over
Msgs(sent) ==
    IF sent = <<>> THEN <<>>
    ELSE (IF Head(sent).ok THEN <<Head(sent).msg>> ELSE <<>>) \o Msgs(Tail(sent))

\* variant of Connected that does not look at conn.open
ChannelExists == connection # 0

\* ----- guards of the code
\* `!connection || connection.open !== true` negated (handleFiles, sendText)
Connected == connection # 0 /\ chan[connection] = "open"

\* `connection && connection.open` of the ping timer
PingGuard == connection # 0 /\ chan[connection] = "open"

\* variant of ReportsClosed that does not look at conn.open
ReportsAnyChannel == connection # 0

\* `connection && !connection.open` of the liveness check
ReportsClosed == connection # 0 /\ chan[connection] # "open"

\* `Date.now() - lastHeartbeat > CONFIG.HEARTBEAT_TIMEOUT`
HeartbeatSilent == now - lastHeartbeat > HEARTBEAT_TIMEOUT

\* no artifact in the codec
NoCodec == [pc |-> "none", file |-> <<>>, chunkSize |-> 1, total |-> 0, i |-> 0,
            chunks |-> <<>>, order |-> <<>>, blob |-> <<>>]

\* a sendFile invocation not made yet
Idle == [pc |-> "idle", file |-> <<>>, total |-> 0, i |-> 0, sentChunks |-> 0]

\* ----- initial state: the globals as declared
InitGlobals ==
    /\ peer = 0
    /\ peers = [p \in PeerIds |-> "unused"]
    /\ connection = 0
    /\ chan = [c \in ChanIds |-> "unused"]
    /\ owner = [c \in ChanIds |-> 0]
    /\ closeEvt = {}
    /\ timers = [k \in TimerKinds |-> FALSE]
    /\ live = [k \in TimerKinds |-> 0]
    /\ lastHeartbeat = 0
    /\ now = 1
    /\ sends = [f \in OutIds |-> Idle]
    /\ sendLog = <<>>
    /\ delivered = 0
    /\ outBar = [f \in OutIds |-> NoBar]
    /\ receivingFiles = EmptyMap
    /\ completedFiles = EmptyMap
    /\ inBar = [f \in InIds |-> NoBar]
    /\ inStatus = [f \in InIds |-> "none"]
    /\ notified = [c \in ChanIds |-> 0]
    /\ ev = Quiet

Init == InitGlobals /\ codec = NoCodec

\* ----- heartbeat timers
\* the intervals left after stopHeartbeat: each non-null handle is cleared
StoppedLive == [k \in TimerKinds |-> IF timers[k] THEN live[k] - 1 ELSE live[k]]

stopHeartbeat ==
    /\ timers' = [k \in TimerKinds |-> FALSE]
    /\ live' = StoppedLive

\* variant of startHeartbeat without the stopHeartbeat() call of line 363
startHeartbeatNoClear ==
    /\ lastHeartbeat' = now
    /\ timers' = [k \in TimerKinds |-> TRUE]
    /\ live' = [k \in TimerKinds |-> live[k] + 1]

startHeartbeat ==
    /\ lastHeartbeat' = now
    /\ timers' = [k \in TimerKinds |-> TRUE]
    /\ live' = [k \in TimerKinds |-> StoppedLive[k] + 1]

\* ----- resetConnection: the globals it resets, the lists it empties and
\* stopHeartbeat; the caller states the rest
resetConnection ==
    /\ peer' = 0
    /\ connection' = 0
    /\ receivingFiles' = EmptyMap
    /\ outBar' = [f \in OutIds |-> NoBar]
    /\ inBar' = [f \in InIds |-> NoBar]
    /\ inStatus' = [f \in InIds |-> "none"]
    /\ stopHeartbeat

\* ----- createRoom / joinRoom and the Peer events
FreshPeer == Least({p \in PeerIds : peers[p] = "unused"})
FreshChan == Least({c \in ChanIds : chan[c] = "unused"})

createRoom ==
    /\ \E p \in PeerIds : peers[p] = "unused"
    /\ peer' = FreshPeer
    /\ peers' = [peers EXCEPT ![FreshPeer] = "host"]
    /\ ev' = Event("createRoom", <<>>, <<>>)
    /\ UNCHANGED <<connection, chan, owner, closeEvt, timerVars, frozen, outVars,
                   inVars, notified>>

\* joinRoom with a room code of the right length (valid) or not
joinRoom(valid) ==
    IF ~valid
    THEN /\ ev' = Event("joinRoom", <<>>, <<"badRoomCode">>)
         /\ UNCHANGED <<sessVars, timerVars, frozen, outVars, inVars, notified>>
    ELSE /\ \E p \in PeerIds : peers[p] = "unused"
         /\ peer' = FreshPeer
         /\ peers' = [peers EXCEPT ![FreshPeer] = "guest"]
         /\ ev' = Event("joinRoom", <<>>, <<>>)
         /\ UNCHANGED <<connection, chan, owner, closeEvt, timerVars, frozen,
                        outVars, inVars, notified>>

\* peer.on('connection') of a host Peer p: connection = conn; setupConnection()
PeerOnConnection(p) ==
    /\ peers[p] = "host"
    /\ \E c \in ChanIds : chan[c] = "unused"
    /\ connection' = FreshChan
    /\ chan' = [chan EXCEPT ![FreshChan] = "connecting"]
    /\ owner' = [owner EXCEPT ![FreshChan] = p]
    /\ ev' = Event("peer.connection", <<>>, <<>>)
    /\ UNCHANGED <<peer, peers, closeEvt, timerVars, frozen, outVars, inVars, notified>>

\* peer.on('open') of a guest Peer p: connection = peer.connect(code);
\* setupConnection().  `peer` is the global: null makes peer.connect throw.
PeerOnOpen(p) ==
    /\ peers[p] = "guest"
    /\ peers' = [peers EXCEPT ![p] = "guestOpen"]
    /\ IF peer = 0 \/ ~(\E c \in ChanIds : chan[c] = "unused")
       THEN /\ peer = 0
            /\ ev' = Event("peer.open", <<>>, <<>>)
            /\ UNCHANGED <<peer, connection, chan, owner>>
       ELSE /\ connection' = FreshChan
            /\ chan' = [chan EXCEPT ![FreshChan] = "connecting"]
            /\ owner' = [owner EXCEPT ![FreshChan] = peer]
            /\ ev' = Event("peer.open", <<>>, <<>>)
            /\ UNCHANGED peer
    /\ UNCHANGED <<closeEvt, timerVars, frozen, outVars, inVars, notified>>

\* peer.on('error'): handlePeerError
handlePeerError(p) ==
    /\ peers[p] \in {"host", "guest", "guestOpen"}
    /\ resetConnection
    /\ ev' = Event("peer.error", <<>>, <<"peerError">>)
    /\ UNCHANGED <<peers, chan, owner, closeEvt, lastHeartbeat, frozen, sends, sendLog,
                   completedFiles, notified>>

\* ----- the channel and the handlers setupConnection registers on it
\* connection.on('open')
ConnectionOnOpen(c) ==
    /\ chan[c] = "connecting"
    /\ chan' = [chan EXCEPT ![c] = "open"]
    /\ startHeartbeat
    /\ ev' = Event("conn.open", <<>>, <<"connected">>)
    /\ UNCHANGED <<peer, peers, connection, owner, closeEvt, frozen, outVars, inVars,
                   notified>>

\* the channel closes (remote close, network loss): conn.open turns false
ChannelCloses(c) ==
    /\ chan[c] = "open"
    /\ chan' = [chan EXCEPT ![c] = "closed"]
    /\ closeEvt' = closeEvt \cup {c}
    /\ ev' = Event("closes", <<>>, <<>>)
    /\ UNCHANGED <<peer, peers, connection, owner, timerVars, frozen, outVars, inVars,
                   notified>>

\* connection.on('close')
ConnectionOnClose(c) ==
    /\ c \in closeEvt
    /\ closeEvt' = closeEvt \ {c}
    /\ resetConnection
    /\ notified' = [notified EXCEPT ![c] = @ + 1]
    /\ ev' = Event("conn.close", <<>>, <<"peerDisconnected">>)
    /\ UNCHANGED <<peers, chan, owner, lastHeartbeat, frozen, sends, sendLog,
                   completedFiles>>

\* connection.on('error')
ConnectionOnError(c) ==
    /\ chan[c] # "unused"
    /\ ev' = Event("conn.error", <<>>, <<"connectionError">>)
    /\ UNCHANGED <<sessVars, timerVars, frozen, outVars, inVars, notified>>

\* ----- the three intervals startHeartbeat sets
\* heartbeatTimer: the ping; a throwing send is caught and logged
HeartbeatPing(ok) ==
    /\ live["heartbeatTimer"] > 0
    /\ IF PingGuard
       THEN ev' = Event("ping", <<Sent(HeartbeatMsg(now), connection, ok)>>, <<>>)
       ELSE /\ ok
            /\ ev' = Event("ping", <<>>, <<>>)
    /\ UNCHANGED <<sessVars, timerVars, frozen, outVars, inVars, notified>>

\* heartbeatCheckTimer: the liveness check
HeartbeatCheck ==
    /\ live["heartbeatCheckTimer"] > 0
    /\ IF HeartbeatSilent /\ ReportsClosed
       THEN /\ resetConnection
            /\ notified' = [notified EXCEPT ![connection] = @ + 1]
            /\ ev' = Event("check", <<>>, <<"connectionLost">>)
            /\ UNCHANGED <<peers, chan, owner, closeEvt, lastHeartbeat, frozen, sends,
                           sendLog, completedFiles>>
       ELSE /\ ev' = Event("check", <<>>, <<>>)
            /\ UNCHANGED <<sessVars, timerVars, frozen, outVars, inVars, notified>>

\* variant of handleVisibilityChange that leaves a throwing probe to the
\* periodic liveness check
handleVisibilityChangeDeferred(hidden, ok) ==
    IF hidden \/ connection = 0
    THEN /\ ok
         /\ ev' = Event("visibility", <<>>, <<>>)
         /\ UNCHANGED <<sessVars, timerVars, frozen, outVars, inVars, notified>>
    ELSE IF chan[connection] = "open"
    THEN /\ ev' = Event("visibility", <<Sent(HeartbeatMsg(now), connection, ok)>>, <<>>)
         /\ UNCHANGED <<sessVars, timerVars, frozen, outVars, inVars, notified>>
    ELSE /\ ok
         /\ resetConnection
         /\ notified' = [notified EXCEPT ![connection] = @ + 1]
         /\ ev' = Event("visibility", <<>>, <<"connectionLostReconnect">>)
         /\ UNCHANGED <<peers, chan, owner, closeEvt, lastHeartbeat, frozen, sends,
                        sendLog, completedFiles>>

\* ----- handleVisibilityChange, with document.hidden as its input
handleVisibilityChange(hidden, ok) ==
    IF hidden \/ connection = 0
    THEN /\ ok
         /\ ev' = Event("visibility", <<>>, <<>>)
         /\ UNCHANGED <<sessVars, timerVars, frozen, outVars, inVars, notified>>
    ELSE IF chan[connection] = "open" /\ ok
    THEN /\ ev' = Event("visibility", <<Sent(HeartbeatMsg(now), connection, TRUE)>>, <<>>)
         /\ UNCHANGED <<sessVars, timerVars, frozen, outVars, inVars, notified>>
    ELSE /\ chan[connection] = "open" \/ ok
         /\ resetConnection
         /\ notified' = [notified EXCEPT ![connection] = @ + 1]
         /\ ev' = Event("visibility",
                        IF chan[connection] = "open"
                        THEN <<Sent(HeartbeatMsg(now), connection, FALSE)>> ELSE <<>>,
                        <<"connectionLostReconnect">>)
         /\ UNCHANGED <<peers, chan, owner, closeEvt, lastHeartbeat, frozen, sends,
                        sendLog, completedFiles>>

\* ----- disconnect: connection.close(), peer.destroy(), resetConnection().
\* close() of an open channel turns conn.open false and emits 'close';
\* destroy() closes every channel of the Peer.
ClosedBy(cs) == [c \in ChanIds |-> IF c \in cs /\ chan[c] \in {"connecting", "open"}
                                   THEN "closed" ELSE chan[c]]

\* sync: close() dispatches the 'close' handler before it returns (the handler
\* resets `peer`, so destroy() is skipped); otherwise the event comes later.
disconnect(sync) ==
    IF sync
    THEN /\ Connected
         /\ chan' = ClosedBy({connection})
         /\ resetConnection
         /\ notified' = [notified EXCEPT ![connection] = @ + 2]
         /\ ev' = Event("disconnect", <<>>, <<"peerDisconnected", "disconnected">>)
         /\ UNCHANGED <<peers, owner, closeEvt, lastHeartbeat, frozen, sends, sendLog,
                        completedFiles>>
    ELSE LET own == IF connection = 0 THEN {} ELSE {connection}
             ofPeer == IF peer = 0 THEN {} ELSE {c \in ChanIds : owner[c] = peer}
             closing == own \cup ofPeer
         IN  /\ chan' = ClosedBy(closing)
             /\ closeEvt' = closeEvt \cup {c \in closing : chan[c] = "open"}
             /\ peers' = IF peer = 0 THEN peers ELSE [peers EXCEPT ![peer] = "destroyed"]
             /\ resetConnection
             /\ notified' = IF connection = 0 THEN notified
                            ELSE [notified EXCEPT ![connection] = @ + 1]
             /\ ev' = Event("disconnect", <<>>, <<"disconnected">>)
             /\ UNCHANGED <<owner, lastHeartbeat, frozen, sends, sendLog, completedFiles>>

\* ----- sendText
IsSpace(ch) == ch = " "

RECURSIVE TrimLeft(_)
TrimLeft(s) == IF s # <<>> /\ IsSpace(Head(s)) THEN TrimLeft(Tail(s)) ELSE s

RECURSIVE TrimRight(_)
TrimRight(s) ==
    IF s # <<>> /\ IsSpace(s[Len(s)]) THEN TrimRight(SubSeq(s, 1, Len(s) - 1)) ELSE s

\* variant of Trim that leaves trailing white space
TrimLeftOnly(s) == TrimLeft(s)

\* String.prototype.trim
Trim(s) == TrimRight(TrimLeft(s))

\* the values of elements.textInput the model tries
Texts == {<<>>, <<" ">>, <<" ", "a", " ", "b", " ">>}

sendText(value, ok) ==
    LET text == Trim(value)
    IN  /\ IF text = <<>>
           THEN /\ ok
                /\ ev' = Event("sendText", <<>>, <<"emptyText">>)
           ELSE IF ~Connected
           THEN /\ ok
                /\ ev' = Event("sendText", <<>>, <<"notConnected">>)
           ELSE ev' = Event("sendText", <<Sent(TextMsg(text, now), connection, ok)>>,
                            IF ok THEN <<"textSent">> ELSE <<>>)
        /\ UNCHANGED <<sessVars, timerVars, frozen, outVars, inVars, notified>>

\* ----- the clock
Tick ==
    /\ now < MaxTime
    /\ now' = now + 1
    /\ ev' = Event("tick", <<>>, <<>>)
    /\ UNCHANGED <<sessVars, timerVars, outVars, delivered, inVars, codec, notified>>

\* ----- handleFiles / sendFile
\* the byte length of the chunk of iteration i: end - start
ChunkLen(size, i, chunkSize) ==
    Min(i * chunkSize + chunkSize, size) - i * chunkSize

\* variant of ChunkOf whose slice ends one byte early
ChunkOfShort(file, i, chunkSize) ==
    Slice(file, i * chunkSize, Min(i * chunkSize + chunkSize, Len(file)) - 1)

\* the chunk of iteration i: file.slice(start, end)
ChunkOf(file, i, chunkSize) ==
    Slice(file, i * chunkSize, Min(i * chunkSize + chunkSize, Len(file)))

\* sendFile(file) up to its first await, as fileId f.  o: what the sends do
\* ("ok", "metaThrows", "completeThrows").  The result: the invocation, its
\* send() calls and its toasts.
StartSend(f, file, o) ==
    LET total == Ceil(Len(file), CHUNK_SIZE)
        meta == Sent(FileMetaMsg(f, Len(file), total), connection, o # "metaThrows")
        done == Sent(FileCompleteMsg(f), connection, o # "completeThrows")
        inv(pc) == [pc |-> pc, file |-> file, total |-> total, i |-> 0, sentChunks |-> 0]
    IN  IF o = "metaThrows"
        THEN [send |-> inv("rejected"), log |-> <<meta>>, toast |-> <<>>]
        ELSE IF total > 0
        THEN [send |-> inv("buffer"), log |-> <<meta>>, toast |-> <<>>]
        ELSE IF o = "completeThrows"
        THEN [send |-> inv("rejected"), log |-> <<meta, done>>, toast |-> <<>>]
        ELSE [send |-> inv("completed"), log |-> <<meta, done>>, toast |-> <<"sendComplete">>]

UsedOut == {f \in OutIds : sends[f].pc # "idle"}

\* handleFiles(files); os[k] is what the sends of the k-th sendFile do
handleFiles(files, os) ==
    IF ~Connected
    THEN /\ \A k \in DOMAIN os : os[k] = "ok"
         /\ ev' = Event("handleFiles", <<>>, <<"notConnected">>)
         /\ UNCHANGED <<sessVars, timerVars, frozen, outVars, inVars, notified>>
    ELSE LET base == Cardinality(UsedOut)
             n == Len(files)
             res == [k \in 1..n |-> StartSend(base + k, files[k], os[k])]
         IN  /\ base + n <= MaxOut
             /\ \A k \in 1..n :
                    os[k] = "completeThrows" => Len(files[k]) = 0
             /\ sends' = [f \in OutIds |->
                            IF f \in (base + 1)..(base + n) THEN res[f - base].send
                            ELSE sends[f]]
             /\ sendLog' = sendLog \o Msgs(Flatten([k \in 1..n |-> res[k].log]))
             /\ outBar' = [f \in OutIds |->
                            IF f \in (base + 1)..(base + n) THEN <<0, 1>> ELSE outBar[f]]
             /\ ev' = Event("handleFiles",
                            Flatten([k \in 1..n |-> res[k].log]),
                            Flatten([k \in 1..n |-> res[k].toast]))
             /\ UNCHANGED <<sessVars, timerVars, frozen, inVars, notified>>

\* variant of Continue whose loop test is `i < totalChunks - 1`
ContinueEarly(f, s1, i1, ok) ==
    IF i1 < s1.total - 1
    THEN [send |-> [s1 EXCEPT !.pc = "buffer", !.i = i1], sent |-> <<>>, toast |-> <<>>]
    ELSE IF connection = 0
    THEN [send |-> [s1 EXCEPT !.pc = "rejected", !.i = i1], sent |-> <<>>, toast |-> <<>>]
    ELSE [send |-> [s1 EXCEPT !.pc = IF ok THEN "completed" ELSE "rejected", !.i = i1],
          sent |-> <<Sent(FileCompleteMsg(f), connection, ok)>>,
          toast |-> IF ok THEN <<"sendComplete">> ELSE <<>>]

\* the loop after `i++` gave i1, for the invocation s1: the loop test, the
\* next slice or, past the last chunk, the completion signal (ok: its send
\* does not throw; with `connection` null the call itself throws)
Continue(f, s1, i1, ok) ==
    IF i1 < s1.total
    THEN [send |-> [s1 EXCEPT !.pc = "buffer", !.i = i1], sent |-> <<>>, toast |-> <<>>]
    ELSE IF connection = 0
    THEN [send |-> [s1 EXCEPT !.pc = "rejected", !.i = i1], sent |-> <<>>, toast |-> <<>>]
    ELSE [send |-> [s1 EXCEPT !.pc = IF ok THEN "completed" ELSE "rejected", !.i = i1],
          sent |-> <<Sent(FileCompleteMsg(f), connection, ok)>>,
          toast |-> IF ok THEN <<"sendComplete">> ELSE <<>>]

\* whether Continue sends the completion signal
Completes(s1, i1) == i1 >= s1.total /\ connection # 0

\* updateFileProgress on the sending list: a no-op without the element
OutProgress(f, n, d) == IF outBar[f] = NoBar THEN outBar ELSE [outBar EXCEPT ![f] = <<n, d>>]

\* sendFile resumes after `await chunk.arrayBuffer()`: the chunk is sent,
\* progress is shown, then either the 10 ms yield or the next iteration
SendChunk(f, ok, ok2) ==
    LET s0 == sends[f]
        chunk == Sent(FileChunkMsg(f, s0.i, ChunkOf(s0.file, s0.i, CHUNK_SIZE)), connection, ok)
        s1 == [s0 EXCEPT !.sentChunks = @ + 1]
        next == Continue(f, s1, s0.i + 1, ok2)
    IN  /\ s0.pc = "buffer"
        /\ IF connection = 0
           THEN /\ ok /\ ok2
                /\ sends' = [sends EXCEPT ![f].pc = "rejected"]
                /\ ev' = Event("sendFile", <<>>, <<>>)
                /\ UNCHANGED <<sendLog, outBar>>
           ELSE IF ~ok
           THEN /\ ok2
                /\ sends' = [sends EXCEPT ![f].pc = "rejected"]
                /\ sendLog' = sendLog \o Msgs(<<chunk>>)
                /\ ev' = Event("sendFile", <<chunk>>, <<>>)
                /\ UNCHANGED outBar
           ELSE IF s0.i % YIELD_EVERY = 0
           THEN /\ ok2
                /\ sends' = [sends EXCEPT ![f] = [s1 EXCEPT !.pc = "yield"]]
                /\ sendLog' = sendLog \o Msgs(<<chunk>>)
                /\ outBar' = OutProgress(f, s1.sentChunks, s1.total)
                /\ ev' = Event("sendFile", <<chunk>>, <<>>)
           ELSE /\ ok2 \/ Completes(s1, s0.i + 1)
                /\ sends' = [sends EXCEPT ![f] = next.send]
                /\ sendLog' = sendLog \o Msgs(<<chunk>> \o next.sent)
                /\ outBar' = OutProgress(f, s1.sentChunks, s1.total)
                /\ ev' = Event("sendFile", <<chunk>> \o next.sent, next.toast)
        /\ UNCHANGED <<sessVars, timerVars, frozen, inVars, notified>>

\* sendFile resumes after the 10 ms yield
ResumeYield(f, ok) ==
    LET s0 == sends[f]
        next == Continue(f, s0, s0.i + 1, ok)
    IN  /\ s0.pc = "yield"
        /\ ok \/ Completes(s0, s0.i + 1)
        /\ sends' = [sends EXCEPT ![f] = next.send]
        /\ sendLog' = sendLog \o Msgs(next.sent)
        /\ ev' = Event("sendFile", next.sent, next.toast)
        /\ UNCHANGED <<sessVars, timerVars, frozen, outBar, inVars, notified>>

\* ----- handleData and the receive functions
\* an unset slot of `new Array(totalChunks)`
Hole == <<-1>>

\* what `new Blob(chunks)` makes of an unset slot: the text "undefined",
\* written here as one marker
UndefinedText == <<-1>>

\* new Array(n)
NewArray(n) == [k \in 1..n |-> Hole]

\* variant of SetSlot that fills the slots in the order of arrival, as
\* `chunks.push(data)` on an empty array would
SetSlotArrival(chunks, idx, data) ==
    LET unset == {k \in 1..Len(chunks) : chunks[k] = Hole}
        at == IF unset = {} THEN Len(chunks) + 1 ELSE Least(unset)
    IN  [k \in 1..(IF at > Len(chunks) THEN at ELSE Len(chunks)) |->
            IF k = at THEN data ELSE chunks[k]]

\* chunks[idx] = data: an index past the end grows the array
SetSlot(chunks, idx, data) ==
    [k \in 1..(IF idx + 1 > Len(chunks) THEN idx + 1 ELSE Len(chunks)) |->
        IF k = idx + 1 THEN data
        ELSE IF k <= Len(chunks) THEN chunks[k] ELSE Hole]

\* new Blob(chunks): the parts in index order
Blob(chunks) ==
    Flatten([k \in 1..Len(chunks) |->
                IF chunks[k] = Hole THEN UndefinedText ELSE chunks[k]])

Tracked(f) == f \in DOMAIN receivingFiles

\* the first element of id file-f has a .file-status child: it is created
\* with one, and updateFileStatus(.., 'completed', url) replaces it
HasStatusEl(f) == inStatus[f] \in {"receiving", "timeout"}

\* receiveFileMeta: a new entry, and one more element in receivedFilesList
\* (querySelector keeps finding the first element of that id)
receiveFileMeta(data) ==
    /\ receivingFiles' = Put(receivingFiles, data.fileId,
            [size |-> data.size, totalChunks |-> data.totalChunks,
             chunks |-> NewArray(data.totalChunks), receivedSize |-> 0,
             lastUpdate |-> now])
    /\ inBar' = IF inBar[data.fileId] = NoBar
                THEN [inBar EXCEPT ![data.fileId] = <<0, 1>>] ELSE inBar
    /\ inStatus' = IF inStatus[data.fileId] = "none"
                   THEN [inStatus EXCEPT ![data.fileId] = "receiving"] ELSE inStatus
    /\ ev' = DataEvent(data, <<>>)
    /\ UNCHANGED completedFiles

\* the entry after receiveFileChunk stored the chunk
ChunkStored(fileData, data) ==
    [fileData EXCEPT !.chunks = SetSlot(@, data.chunkIndex, data.data),
                     !.receivedSize = @ + Len(data.data),
                     !.lastUpdate = now]

\* variant of receiveFileChunk that finalizes the transfer once no slot is
\* left unset
receiveFileChunkCompleting(data) ==
    IF ~Tracked(data.fileId)
    THEN /\ ev' = DataEvent(data, <<>>)
         /\ UNCHANGED inVars
    ELSE LET fileData == ChunkStored(receivingFiles[data.fileId], data)
             full == \A k \in 1..Len(fileData.chunks) : fileData.chunks[k] # Hole
         IN  /\ receivingFiles' = IF full THEN Del(receivingFiles, data.fileId)
                                  ELSE Put(receivingFiles, data.fileId, fileData)
             /\ completedFiles' = IF full
                                  THEN Put(completedFiles, data.fileId,
                                           [size |-> fileData.size,
                                            blob |-> Blob(fileData.chunks)])
                                  ELSE completedFiles
             /\ inBar' = IF inBar[data.fileId] = NoBar THEN inBar
                         ELSE [inBar EXCEPT ![data.fileId] =
                                  <<fileData.receivedSize, fileData.size>>]
             /\ inStatus' = IF full /\ HasStatusEl(data.fileId)
                            THEN [inStatus EXCEPT ![data.fileId] = "completed"]
                            ELSE inStatus
             /\ ev' = DataEvent(data, <<>>)

receiveFileChunk(data) ==
    IF ~Tracked(data.fileId)
    THEN /\ ev' = DataEvent(data, <<>>)
         /\ UNCHANGED inVars
    ELSE LET fileData == ChunkStored(receivingFiles[data.fileId], data)
         IN  /\ receivingFiles' = Put(receivingFiles, data.fileId, fileData)
             /\ inBar' = IF inBar[data.fileId] = NoBar THEN inBar
                         ELSE [inBar EXCEPT ![data.fileId] =
                                  <<fileData.receivedSize, fileData.size>>]
             /\ ev' = DataEvent(data, <<>>)
             /\ UNCHANGED <<completedFiles, inStatus>>

receiveFileComplete(data) ==
    IF ~Tracked(data.fileId)
    THEN /\ ev' = DataEvent(data, <<>>)
         /\ UNCHANGED inVars
    ELSE LET fileData == receivingFiles[data.fileId]
         IN  /\ completedFiles' = Put(completedFiles, data.fileId,
                    [size |-> fileData.size, blob |-> Blob(fileData.chunks)])
             /\ receivingFiles' = Del(receivingFiles, data.fileId)
             /\ inStatus' = IF HasStatusEl(data.fileId)
                            THEN [inStatus EXCEPT ![data.fileId] = "completed"]
                            ELSE inStatus
             /\ ev' = DataEvent(data, <<"receiveComplete">>)
             /\ UNCHANGED inBar

\* variant of handleData that returns on a heartbeat before it refreshes
\* lastHeartbeat
handleDataHeartbeatFirst(c, data) ==
    /\ chan[c] = "open"
    /\ lastHeartbeat' = IF data.type = "heartbeat" THEN lastHeartbeat ELSE now
    /\ CASE data.type = "file-meta" -> receiveFileMeta(data)
         [] data.type = "file-chunk" -> receiveFileChunk(data)
         [] data.type = "file-complete" -> receiveFileComplete(data)
         [] data.type = "text" ->
                ev' = DataEvent(data, <<"newText">>) /\ UNCHANGED inVars
         [] OTHER -> ev' = DataEvent(data, <<>>) /\ UNCHANGED inVars
    /\ UNCHANGED <<sessVars, timers, live, now, codec, outVars, notified>>

\* connection.on('data', handleData) of channel c; where the message came
\* from (`delivered`) is the dispatching step's to state
handleData(c, data) ==
    /\ chan[c] = "open"
    /\ lastHeartbeat' = now
    /\ CASE data.type = "file-meta" -> receiveFileMeta(data)
         [] data.type = "file-chunk" -> receiveFileChunk(data)
         [] data.type = "file-complete" -> receiveFileComplete(data)
         [] data.type = "text" ->
                ev' = DataEvent(data, <<"newText">>) /\ UNCHANGED inVars
         [] OTHER -> ev' = DataEvent(data, <<>>) /\ UNCHANGED inVars
    /\ UNCHANGED <<sessVars, timers, live, now, codec, outVars, notified>>

\* ----- checkTransferTimeout, the third interval
\* variant of TimedOut that waits one time unit longer
TimedOutLate(fileData) ==
    fileData.lastUpdate # 0 /\ now - fileData.lastUpdate > TRANSFER_TIMEOUT + 1

\* variant of TimedOut that purges at the timeout itself (`>=` for `>`)
TimedOutEager(fileData) ==
    fileData.lastUpdate # 0 /\ now - fileData.lastUpdate >= TRANSFER_TIMEOUT

TimedOut(fileData) ==
    fileData.lastUpdate # 0 /\ now - fileData.lastUpdate > TRANSFER_TIMEOUT

\* variant of checkTransferTimeout that drops every transfer once one timed out
checkTransferTimeoutAll ==
    LET stale == IF \E f \in DOMAIN receivingFiles : TimedOut(receivingFiles[f])
                 THEN DOMAIN receivingFiles ELSE {}
    IN  /\ live["transferCheckTimer"] > 0
        /\ receivingFiles' = [f \in DOMAIN receivingFiles \ stale |-> receivingFiles[f]]
        /\ inStatus' = [f \in InIds |->
                           IF f \in stale /\ HasStatusEl(f) THEN "timeout" ELSE inStatus[f]]
        /\ ev' = Event("sweep", <<>>, [k \in 1..Cardinality(stale) |-> "transferTimeout"])
        /\ UNCHANGED <<sessVars, timerVars, frozen, outVars, completedFiles, inBar, notified>>

checkTransferTimeout ==
    LET stale == {f \in DOMAIN receivingFiles : TimedOut(receivingFiles[f])}
    IN  /\ live["transferCheckTimer"] > 0
        /\ receivingFiles' = [f \in DOMAIN receivingFiles \ stale |-> receivingFiles[f]]
        /\ inStatus' = [f \in InIds |->
                           IF f \in stale /\ HasStatusEl(f) THEN "timeout" ELSE inStatus[f]]
        /\ ev' = Event("sweep", <<>>, [k \in 1..Cardinality(stale) |-> "transferTimeout"])
        /\ UNCHANGED <<sessVars, timerVars, frozen, outVars, completedFiles, inBar, notified>>

\* ----- next-state relations
FileLists ==
    UNION {[1..n -> {File(k) : k \in 0..MaxFileSize}] : n \in 0..MaxFiles}

\* the steps that set up a session
ConnectNext ==
    \/ createRoom
    \/ \E valid \in BOOLEAN : joinRoom(valid)
    \/ \E p \in PeerIds : PeerOnConnection(p)
    \/ \E p \in PeerIds : PeerOnOpen(p)
    \/ \E c \in ChanIds : ConnectionOnOpen(c)

\* the steps that can end one
TeardownNext ==
    \/ \E p \in PeerIds : handlePeerError(p)
    \/ \E c \in ChanIds : ChannelCloses(c)
    \/ \E c \in ChanIds : ConnectionOnClose(c)
    \/ HeartbeatCheck
    \/ \E hidden, ok \in BOOLEAN : handleVisibilityChange(hidden, ok)
    \/ \E sync \in BOOLEAN : disconnect(sync)

\* the steps that change no global: they only emit
QuietNext ==
    \/ \E c \in ChanIds : ConnectionOnError(c)
    \/ \E ok \in BOOLEAN : HeartbeatPing(ok)
    \/ \E value \in Texts, ok \in BOOLEAN : sendText(value, ok)

SessionNext == ConnectNext \/ TeardownNext \/ QuietNext

OutNext ==
    \/ \E files \in FileLists :
          \E os \in [DOMAIN files -> {"ok", "metaThrows", "completeThrows"}] :
             handleFiles(files, os)
    \/ \E f \in OutIds, ok, ok2 \in BOOLEAN : SendChunk(f, ok, ok2)
    \/ \E f \in OutIds, ok \in BOOLEAN : ResumeYield(f, ok)

\* the file messages the remote peer sends about the fileIds ids: metadata
\* as sendFile computes it for the sizes, chunks of the indices idxs, and
\* completion signals
Blocks == {[k \in 1..n |-> 1] : n \in 1..CHUNK_SIZE}
FileMsgs(ids, sizes, idxs) ==
    {FileMetaMsg(f, n, Ceil(n, CHUNK_SIZE)) : f \in ids, n \in sizes}
    \cup {FileChunkMsg(f, i, d) : f \in ids, i \in idxs, d \in Blocks}
    \cup {FileCompleteMsg(f) : f \in ids}
OtherMsgs == {HeartbeatMsg(now), TextMsg(<<"a">>, now), [type |-> "unknown"]}

\* the remote peer stops feeding a transfer after MaxReceived bytes
Deliverable(m) ==
    m.type = "file-chunk" /\ Tracked(m.fileId)
        => receivingFiles[m.fileId].receivedSize + Len(m.data) <= MaxReceived

\* any file message about one fileId, well-formed or not
InNext ==
    \/ \E c \in ChanIds, m \in FileMsgs({"X"}, 0..MaxInSize, 0..MaxInSize) :
          Deliverable(m) /\ handleData(c, m) /\ UNCHANGED delivered
    \/ checkTransferTimeout

\* the messages of well-formed transfers of MaxInSize bytes, about every fileId
InNextWellFormed ==
    \/ \E c \in ChanIds, m \in FileMsgs(InIds, {MaxInSize}, 0..(MaxInSize - 1)) :
          Deliverable(m) /\ handleData(c, m) /\ UNCHANGED delivered
    \/ checkTransferTimeout

OtherNext ==
    \E c \in ChanIds, m \in OtherMsgs : handleData(c, m) /\ UNCHANGED delivered

Next == SessionNext \/ OtherNext \/ Tick \/ OutNext \/ InNext \/ InNextWellFormed

Spec == Init /\ [][Next]_vars

\* the session, its timers, its commands and the heartbeats over time
SpecSession == Init /\ [][SessionNext \/ OtherNext \/ Tick]_vars

\* a host whose first channel has just opened (Init, createRoom,
\* PeerOnConnection(1), ConnectionOnOpen(1))
InitLive ==
    /\ peer = 1
    /\ peers = [p \in PeerIds |-> IF p = 1 THEN "host" ELSE "unused"]
    /\ connection = 1
    /\ chan = [c \in ChanIds |-> IF c = 1 THEN "open" ELSE "unused"]
    /\ owner = [c \in ChanIds |-> IF c = 1 THEN 1 ELSE 0]
    /\ closeEvt = {}
    /\ timers = [k \in TimerKinds |-> TRUE]
    /\ live = [k \in TimerKinds |-> 1]
    /\ lastHeartbeat = 1
    /\ now = 1
    /\ sends = [f \in OutIds |-> Idle]
    /\ sendLog = <<>>
    /\ delivered = 0
    /\ outBar = [f \in OutIds |-> NoBar]
    /\ receivingFiles = EmptyMap
    /\ completedFiles = EmptyMap
    /\ inBar = [f \in InIds |-> NoBar]
    /\ inStatus = [f \in InIds |-> "none"]
    /\ codec = NoCodec
    /\ notified = [c \in ChanIds |-> 0]
    /\ ev = Event("conn.open", <<>>, <<"connected">>)

\* one inbound fileId in an established session over time, with every step
\* that can end the session
SpecIn == InitLive /\ [][TeardownNext \/ Tick \/ InNext]_vars

\* the well-formed inbound transfers of an established session over time
SpecSweep == InitLive /\ [][Tick \/ InNextWellFormed]_vars

\* the send loops, with every step that sets up or ends a session, within
\* one time unit
SpecOut == Init /\ [][ConnectNext \/ TeardownNext \/ OutNext]_vars

\* every kind of inbound message in an established session over time
SpecDispatch == InitLive /\ [][Tick \/ OtherNext \/ InNext]_vars

\* the send loops across disconnect(): sessions are set up, and ended by
\* disconnect() and the 'close' events it causes only
SpecDisconnect ==
    Init /\ [][\/ ConnectNext
               \/ \E sync \in BOOLEAN : disconnect(sync)
               \/ \E c \in ChanIds : ConnectionOnClose(c)
               \/ OutNext]_vars

\* ----- the chunk codec on its own: sendFile's split, receiveFileComplete's
\* assembly, for every artifact and chunk size
Artifacts == UNION {[1..n -> Bytes] : n \in 0..MaxArtifact}

\* the codec given artifact file and chunk size cs: totalChunks as line 617,
\* the receiver's slots as receiveFileMeta makes them
CodecStart(file, cs) ==
    [pc |-> "split", file |-> file, chunkSize |-> cs, total |-> Ceil(Len(file), cs),
     i |-> 0, chunks |-> NewArray(Ceil(Len(file), cs)), order |-> <<>>, blob |-> <<>>]

InitCodec ==
    /\ InitGlobals
    /\ codec \in {CodecStart(file, cs) : file \in Artifacts, cs \in 1..MaxChunkSize}

\* one iteration of the send loop, its chunk stored as receiveFileChunk does
CodecChunk ==
    /\ codec.pc = "split"
    /\ codec.i < codec.total
    /\ codec' = [codec EXCEPT
            !.chunks = SetSlot(@, codec.i, ChunkOf(codec.file, codec.i, codec.chunkSize)),
            !.order = Append(@, codec.i),
            !.i = @ + 1]
    /\ UNCHANGED <<sessVars, timerVars, now, outVars, delivered, inVars, notified, ev>>

\* past the last chunk: new Blob(chunks)
CodecAssemble ==
    /\ codec.pc = "split"
    /\ codec.i >= codec.total
    /\ codec' = [codec EXCEPT !.pc = "done", !.blob = Blob(codec.chunks)]
    /\ UNCHANGED <<sessVars, timerVars, now, outVars, delivered, inVars, notified, ev>>

CodecNext == CodecChunk \/ CodecAssemble

SpecCodec == InitCodec /\ [][CodecNext]_vars

\* a chunk of the send loop arrives out of turn: any index not delivered yet,
\* stored as receiveFileChunk does
CodecDeliver(idx) ==
    /\ codec.pc = "split"
    /\ idx < codec.total
    /\ \A k \in 1..Len(codec.order) : codec.order[k] # idx
    /\ codec' = [codec EXCEPT
            !.chunks = SetSlot(@, idx, ChunkOf(codec.file, idx, codec.chunkSize)),
            !.order = Append(@, idx),
            !.i = @ + 1]
    /\ UNCHANGED <<sessVars, timerVars, now, outVars, delivered, inVars, notified, ev>>

\* the codec under every delivery order of a complete, duplicate-free chunk set
SpecReorder ==
    InitCodec /\ [][(\E idx \in 0..(MaxArtifact - 1) : CodecDeliver(idx)) \/ CodecAssemble]_vars

\* ----- two pages joined by one channel: the sender's send loops, the
\* channel's in-order dispatch at the receiver, the receiver's sweep.  Both
\* pages run src/app.js in an established session that no step here ends,
\* so one copy of the session and timer variables stands for both.
\* fileIds are opaque strings (generateFileId): the sender's f-th id is
\* written as the f-th of InIds on the wire
WireId(f) == IF f = 1 THEN "X" ELSE "Y"
OnWire(m) == [m EXCEPT !.fileId = WireId(@)]

\* the channel dispatches its oldest undelivered message to the receiver's
\* 'data' handler
Deliver ==
    /\ connection # 0
    /\ delivered < Len(sendLog)
    /\ delivered' = delivered + 1
    /\ handleData(connection, OnWire(sendLog[delivered + 1]))

\* the clock advances while no tracked transfer has been without a message
\* for longer than TRANSFER_TIMEOUT
TickWithinTimeout ==
    /\ \A f \in DOMAIN receivingFiles :
          (now + 1) - receivingFiles[f].lastUpdate <= TRANSFER_TIMEOUT
    /\ Tick

\* the sends of an open channel do not throw
DeliveryNext ==
    \/ \E files \in FileLists :
          /\ Cardinality(UsedOut) + Len(files) <= Cardinality(InIds)
          /\ handleFiles(files, [k \in DOMAIN files |-> "ok"])
    \/ \E f \in OutIds : SendChunk(f, TRUE, TRUE)
    \/ \E f \in OutIds : ResumeYield(f, TRUE)
    \/ Deliver
    \/ checkTransferTimeout
    \/ HeartbeatCheck
    \/ TickWithinTimeout

SpecDelivery == InitLive /\ [][DeliveryNext]_vars

\* the same under fair scheduling: a resumable send loop resumes, a message
\* in flight is dispatched, the sweep's interval keeps firing
SpecDeliveryFair ==
    /\ SpecDelivery
    /\ \A f \in OutIds : WF_vars(SendChunk(f, TRUE, TRUE))
    /\ \A f \in OutIds : WF_vars(ResumeYield(f, TRUE))
    /\ WF_vars(Deliver)
    /\ WF_vars(checkTransferTimeout)

(***************************************************************************)
(* The properties                                                          *)
(***************************************************************************)

\* ----- C1 (SpecOut)
\* C1: a handleFiles call made while `connection` is null or its channel
\* does not report open shows the not-connected error, hands no file-meta,
\* file-chunk or file-complete message to any channel and starts no
\* transfer; this holds in every reachable state, also after a teardown.
C1_RejectedWhenNotConnected ==
    [][(connection = 0 \/ chan[connection] # "open") /\ ev'.op = "handleFiles"
          => /\ ev'.toast = <<"notConnected">>
             /\ ev'.sent = <<>>
             /\ sendLog' = sendLog
             /\ sends' = sends]_vars

\* a rejected handleFiles after a session was torn down
C1_Witness ==
    /\ ev.op = "handleFiles"
    /\ ev.toast = <<"notConnected">>
    /\ connection = 0
    /\ \E c \in ChanIds : notified[c] > 0

\* ----- C2 (SpecSession)
OnlySpaces(s) == \A k \in 1..Len(s) : s[k] = " "

\* t is s without its leading and trailing white space
IsTrimmed(t, s) ==
    /\ t # <<>> => t[1] # " " /\ t[Len(t)] # " "
    /\ \E a \in 0..Len(s) :
          /\ a + Len(t) <= Len(s)
          /\ SubSeq(s, a + 1, a + Len(t)) = t
          /\ OnlySpaces(SubSeq(s, 1, a))
          /\ OnlySpaces(SubSeq(s, a + Len(t) + 1, Len(s)))

\* C2: sendText makes no send() call and shows the empty-content error when
\* the input is empty or white space only; it makes no send() call and shows
\* the not-connected error when there is no open channel; in every other
\* case it makes exactly one send() call, on the current channel, of a text
\* message carrying the trimmed input and the current time.
C2_SendText ==
    [][\A value \in Texts, ok \in BOOLEAN :
          sendText(value, ok) =>
             IF OnlySpaces(value)
             THEN ev'.sent = <<>> /\ ev'.toast = <<"emptyText">>
             ELSE IF connection = 0 \/ chan[connection] # "open"
             THEN ev'.sent = <<>> /\ ev'.toast = <<"notConnected">>
             ELSE /\ Len(ev'.sent) = 1
                  /\ ev'.sent[1].chan = connection
                  /\ ev'.sent[1].msg.type = "text"
                  /\ IsTrimmed(ev'.sent[1].msg.content, value)
                  /\ ev'.sent[1].msg.timestamp = now]_vars

\* a text with white space around and inside it was sent
C2_Witness ==
    /\ ev.op = "sendText"
    /\ Len(ev.sent) = 1
    /\ ev.sent[1].ok
    /\ ev.sent[1].msg.content = <<"a", " ", "b">>

\* ----- C3 (SpecOut)
\* the messages handed to a channel for the outbound fileId f, in order
LogOf(f) ==
    LET IsOf(m) == m.fileId = f
    IN  SelectSeq(sendLog, IsOf)

\* C3: for every outbound transfer with N chunks the messages handed over
\* for its fileId are at any time a prefix of: one file-meta, the file-chunk
\* messages of indices 0..N-1 in increasing order, one file-complete; and a
\* transfer marked completed has handed over all N + 2 of them.
C3_MetaChunksComplete ==
    \A f \in OutIds :
        LET log == LogOf(f)
            N == sends[f].total
        IN  /\ Len(log) <= N + 2
            /\ \A k \in 1..Len(log) :
                  /\ log[k].type = IF k = 1 THEN "file-meta"
                                   ELSE IF k <= N + 1 THEN "file-chunk"
                                   ELSE "file-complete"
                  /\ log[k].type = "file-chunk" => log[k].chunkIndex = k - 2
            /\ sends[f].pc = "completed" => Len(log) = N + 2

\* a transfer of two chunks completed
C3_Witness ==
    \E f \in OutIds :
        /\ sends[f].pc = "completed"
        /\ sends[f].total = 2
        /\ Len(LogOf(f)) = 4

\* ----- C4 (SpecOut)
\* C4: between the file-meta and the file-complete of one outbound fileId no
\* message of another outbound fileId is handed to the channel.
C4_NeverInterleaved ==
    \A a, b \in 1..Len(sendLog) :
        (/\ a < b
         /\ sendLog[a].type = "file-meta"
         /\ sendLog[b].type = "file-complete"
         /\ sendLog[a].fileId = sendLog[b].fileId)
            => \A k \in a..b : sendLog[k].fileId = sendLog[a].fileId

\* ----- C5 (SpecIn)
\* the step delivers an artifact for the fileId f
Delivered(f) ==
    /\ f \in DOMAIN completedFiles'
    /\ f \notin DOMAIN completedFiles \/ completedFiles'[f] # completedFiles[f]

\* C5: an artifact is delivered for a fileId, and its entry leaves
\* receivingFiles with it, only in a step that dispatches a file-complete
\* message for that fileId while it is tracked; a step that dispatches a
\* file-chunk delivers nothing and removes no entry, even when it fills the
\* last slot.
C5_CompletedOnlyOnFileComplete ==
    [][/\ \A f \in InIds :
             Delivered(f) => /\ ev'.msg = FileCompleteMsg(f)
                             /\ f \in DOMAIN receivingFiles
                             /\ f \notin DOMAIN receivingFiles'
       /\ ev'.msg.type = "file-chunk"
             => /\ completedFiles' = completedFiles
                /\ DOMAIN receivingFiles' = DOMAIN receivingFiles
                /\ inStatus' = inStatus]_vars

\* a transfer whose slots were all filled was completed by its file-complete
C5_Witness ==
    /\ ev.msg = FileCompleteMsg("X")
    /\ "X" \in DOMAIN completedFiles
    /\ completedFiles["X"].blob = <<1, 1>>
    /\ "X" \notin DOMAIN receivingFiles

\* ----- C6 (SpecSweep)
\* every entry older than the transfer timeout is gone after a sweep
SweepPurges ==
    checkTransferTimeout =>
        \A f \in DOMAIN receivingFiles :
            now - receivingFiles[f].lastUpdate > TRANSFER_TIMEOUT
                => f \notin DOMAIN receivingFiles'

\* the step dispatches a file-chunk or file-complete message for f
LateMessage(f) ==
    /\ ev'.msg.type \in {"file-chunk", "file-complete"}
    /\ ev'.msg.fileId = f

\* the message is ignored: no transfer created or changed, no artifact
\* delivered, no list element touched, no notice
Ignored == UNCHANGED inVars /\ ev'.toast = <<>>

\* C6: the sweep removes every transfer whose last activity is older than
\* the transfer timeout; a file-chunk or file-complete message that arrives
\* for a swept fileId while no new file-meta has announced that fileId again
\* is ignored: it creates no transfer, delivers no artifact, changes no other
\* transfer and shows no error.
C6_SweptThenIgnoredUntilAnnounced ==
    [][/\ SweepPurges
       /\ \A f \in InIds :
             inStatus[f] = "timeout" /\ f \notin DOMAIN receivingFiles /\ LateMessage(f)
                => Ignored]_vars

\* C6 as stated: after the sweep removed a transfer, every later file-chunk
\* or file-complete message for its fileId is ignored.
C6_SweptThenIgnoredForever ==
    [][/\ SweepPurges
       /\ \A f \in InIds : inStatus[f] = "timeout" /\ LateMessage(f) => Ignored]_vars

\* a file-complete for the swept X was ignored while Y is being received
C6_Witness ==
    /\ inStatus["X"] = "timeout"
    /\ "X" \notin DOMAIN receivingFiles
    /\ "X" \notin DOMAIN completedFiles
    /\ ev.msg = FileCompleteMsg("X")
    /\ "Y" \in DOMAIN receivingFiles

\* ----- C7 (SpecSession)
\* C7: for the ending of one session (one channel) the teardown's user-facing
\* disconnect notice is shown exactly once, whichever of the liveness check,
\* the close event, the visibility handler and disconnect() fire.
C7_NotifiedOnce == \A c \in ChanIds : notified[c] <= 1

\* ----- C8 (SpecSession)
\* C8: while the channel of `connection` reports open, neither the ping
\* timer nor the liveness check tears the session down: `peer`, `connection`
\* and the timers stay, no transfer is dropped and no notice is shown,
\* whether the ping's send throws or not and however long the silence is.
C8_NoTeardownWhileOpen ==
    [][(/\ connection # 0
        /\ chan[connection] = "open"
        /\ HeartbeatCheck \/ \E ok \in BOOLEAN : HeartbeatPing(ok))
          => /\ peer' = peer
             /\ connection' = connection
             /\ timers' = timers
             /\ live' = live
             /\ receivingFiles' = receivingFiles
             /\ notified' = notified
             /\ ev'.toast = <<>>]_vars

\* a ping threw after a silence longer than the heartbeat timeout, and the
\* session is still up
C8_Witness ==
    /\ connection # 0
    /\ chan[connection] = "open"
    /\ now - lastHeartbeat > HEARTBEAT_TIMEOUT
    /\ ev.op = "ping"
    /\ ev.sent # <<>>
    /\ ~ev.sent[1].ok
    /\ \A k \in TimerKinds : timers[k] /\ live[k] = 1

\* ----- C9 (SpecIn)
\* the bar b shows no more than the bar c (as fractions of 100%)
BarLeq(b, c) == b[1] * c[2] <= c[1] * b[2]

\* C9: the progress shown for a transfer, inbound or outbound, never
\* decreases and never exceeds 100%.
C9_ProgressMonotoneBounded ==
    [][/\ \A f \in InIds :
             inBar'[f] # NoBar
                => /\ inBar'[f][1] <= inBar'[f][2]
                   /\ inBar[f] # NoBar => BarLeq(inBar[f], inBar'[f])
       /\ \A f \in OutIds :
             outBar'[f] # NoBar
                => /\ outBar'[f][1] <= outBar'[f][2]
                   /\ outBar[f] # NoBar => BarLeq(outBar[f], outBar'[f])]_vars

\* ----- C10 (SpecCodec)
\* C10: for every artifact and every chunk size >= 1, the chunks sendFile
\* cuts, stored by index and assembled as receiveFileComplete does, give the
\* artifact back byte for byte; an artifact of size 0 gives zero chunks and
\* an empty blob.
C10_RoundTrip ==
    codec.pc = "done"
        => /\ codec.blob = codec.file
           /\ Len(codec.chunks) * codec.chunkSize >= Len(codec.file)
           /\ Len(codec.chunks) * codec.chunkSize < Len(codec.file) + codec.chunkSize
           /\ codec.file = <<>> => codec.chunks = <<>> /\ codec.blob = <<>>

\* an artifact whose last chunk is shorter than the chunk size was assembled
C10_Witness ==
    /\ codec.pc = "done"
    /\ Len(codec.file) = 3
    /\ codec.chunkSize = 2
    /\ Len(codec.chunks) = 2

\* ----- C11 (SpecReorder)
\* what in-order delivery assembles: the chunks of the send loop, by index
InOrderBlob(file, cs) ==
    Blob([k \in 1..Ceil(Len(file), cs) |-> ChunkOf(file, k - 1, cs)])

\* C11: whatever the order in which the file-chunk messages of indices
\* 0..N-1 of one transfer are delivered, each once, the artifact assembled on
\* the file-complete is the one assembled after in-order delivery.
C11_ReorderingTolerated ==
    codec.pc = "done" => codec.blob = InOrderBlob(codec.file, codec.chunkSize)

\* three chunks, not all alike, delivered last one first and assembled
C11_Witness ==
    /\ codec.pc = "done"
    /\ codec.file = <<0, 1, 1>>
    /\ codec.chunkSize = 1
    /\ codec.order = <<2, 0, 1>>

\* ----- C12 (SpecDisconnect)
\* the send loop of f is suspended at an await
Running(f) == sends[f].pc \in {"buffer", "yield"}

\* C12: disconnect() leaves `connection` null and receivingFiles empty, and a
\* send loop that was running when disconnect() wiped the lists (it runs on
\* without its list element) never emits its completion notice afterwards.
C12_AbandonedStaysSilent ==
    [][/\ ev'.op = "disconnect" => connection' = 0 /\ receivingFiles' = EmptyMap
       /\ \A f \in OutIds :
             Running(f) /\ outBar[f] = NoBar
                => sends'[f].pc # "completed"]_vars

\* ----- C13 (SpecIn)
\* one of the totalChunks slots of the tracked transfer f is unset
HasUnsetSlot(f) ==
    \E k \in 1..receivingFiles[f].totalChunks : receivingFiles[f].chunks[k] = Hole

\* C13: a file-complete for a tracked transfer with an unset slot delivers no
\* artifact, is surfaced as a failure of that transfer (a notice that is not
\* the completion notice), and leaves the session up.
C13_IncompleteAssemblyFails ==
    [][\A f \in InIds :
          (/\ ev'.msg = FileCompleteMsg(f)
           /\ f \in DOMAIN receivingFiles
           /\ HasUnsetSlot(f))
             => /\ completedFiles' = completedFiles
                /\ ev'.toast # <<>>
                /\ ev'.toast # <<"receiveComplete">>
                /\ connection' = connection
                /\ timers' = timers]_vars

\* ----- C14 (SpecOut)
\* the send() calls of file messages that threw in the step just taken
FailedFileSends ==
    {k \in DOMAIN ev.sent :
        /\ ~ev.sent[k].ok
        /\ ev.sent[k].msg.type \in {"file-meta", "file-chunk", "file-complete"}}

\* C14: a step in which the send() of a file-meta, file-chunk or
\* file-complete throws shows one failure notice (a notice other than the
\* completion notice) for each transfer it aborts, marks none of them
\* completed and sends nothing more for them.
C14_SendFailureNoticed ==
    FailedFileSends # {}
        => /\ Cardinality({k \in DOMAIN ev.toast : ev.toast[k] # "sendComplete"})
                 = Cardinality(FailedFileSends)
           /\ \A k \in FailedFileSends :
                 sends[ev.sent[k].msg.fileId].pc = "rejected"

\* ----- C15 (SpecIn)
\* C15: once the session of an established channel is torn down
\* (`connection` is null again; no channel opens in SpecIn), no interval of
\* the ping, the liveness check or the sweep is live and receivingFiles is
\* empty, whatever the torn-down channel still delivers.
C15_QuietAfterTeardown ==
    connection = 0
        => /\ receivingFiles = EmptyMap
           /\ \A k \in TimerKinds : live[k] = 0 /\ ~timers[k]

\* ----- C16 (SpecSession)
\* C16: at most one open channel dispatches its events into the controller,
\* and the 'close' event of a channel that is not the current one leaves the
\* current session (`connection`, `peer`, the timers) as it is.
C16_OneLiveSession ==
    [][/\ Cardinality({c \in ChanIds : chan'[c] = "open"}) <= 1
       /\ \A c \in ChanIds :
             (c \in closeEvt /\ c \notin closeEvt' /\ connection \notin {0, c})
                => /\ connection' = connection
                   /\ peer' = peer
                   /\ timers' = timers]_vars

\* ----- C17 (SpecCodec)
RECURSIVE SumLen(_)
\* the total length of a sequence of chunks
SumLen(chunks) == IF chunks = <<>> THEN 0 ELSE Len(Head(chunks)) + SumLen(Tail(chunks))

\* C17: for every artifact size and chunk size c >= 1 the declared
\* totalChunks n is ceil(size / c), exactly n chunks are emitted, every chunk
\* but the last has c bytes, the last has size - (n-1)*c bytes (1..c), and
\* the lengths sum to size; the arithmetic of the send loop gives 3 chunks of
\* 65536, 65536 and 18928 bytes for size 150000 and c = 65536.
C17_ChunkCountAndLengths ==
    codec.pc = "done"
        => LET size == Len(codec.file)
               c == codec.chunkSize
               n == codec.total
           IN  /\ n * c >= size /\ (n - 1) * c < size
               /\ Len(codec.order) = n /\ Len(codec.chunks) = n
               /\ \A k \in 1..n :
                     /\ Len(codec.chunks[k]) = IF k < n THEN c ELSE size - (n - 1) * c
                     /\ Len(codec.chunks[k]) \in 1..c
                     /\ Len(codec.chunks[k]) = ChunkLen(size, k - 1, c)
               /\ SumLen(codec.chunks) = size
               /\ Ceil(150000, 65536) = 3
               /\ ChunkLen(150000, 0, 65536) = 65536
               /\ ChunkLen(150000, 1, 65536) = 65536
               /\ ChunkLen(150000, 2, 65536) = 18928

\* four bytes cut into a full chunk of three and a last chunk of one
C17_Witness ==
    /\ codec.pc = "done"
    /\ Len(codec.file) = 4
    /\ codec.chunkSize = 3
    /\ Len(codec.chunks[1]) = 3
    /\ Len(codec.chunks[2]) = 1

\* ----- C18 (SpecIn)
\* C18: a file-chunk for a tracked transfer whose slot is already filled
\* leaves the slots, the received-byte counter and the progress as they
\* were; a file-chunk whose index is outside 0..totalChunks-1 leaves the size
\* of the slot array and the counter as they were.
C18_ChunkReceiptIdempotent ==
    [][\A f \in InIds :
          (/\ ev'.msg.type = "file-chunk"
           /\ ev'.msg.fileId = f
           /\ f \in DOMAIN receivingFiles)
             => LET old == receivingFiles[f]
                    new == receivingFiles'[f]
                    idx == ev'.msg.chunkIndex
                IN  /\ (idx < Len(old.chunks) /\ old.chunks[idx + 1] # Hole)
                         => /\ new.chunks = old.chunks
                            /\ new.receivedSize = old.receivedSize
                            /\ inBar'[f] = inBar[f]
                    /\ idx >= old.totalChunks
                         => /\ Len(new.chunks) = Len(old.chunks)
                            /\ new.receivedSize = old.receivedSize]_vars

\* ----- C19 (SpecSweep)
\* the step leaves the session and its timers as they are
SessionKept ==
    /\ peer' = peer
    /\ connection' = connection
    /\ chan' = chan
    /\ timers' = timers
    /\ live' = live
    /\ notified' = notified

\* the step leaves the transfer of fileId y, tracked or not, as it is
TransferKept(y) ==
    IF y \in DOMAIN receivingFiles
    THEN y \in DOMAIN receivingFiles' /\ receivingFiles'[y] = receivingFiles[y]
    ELSE y \notin DOMAIN receivingFiles'

\* C19: a file-chunk or file-complete for fileId x leaves every other
\* transfer y (slots, byte counter, last activity) as it is; a sweep leaves
\* every transfer that has not timed out as it is and creates none; and none
\* of these steps tears down the session or touches its timers.
C19_TransfersIsolated ==
    [][/\ \A x \in InIds :
             (ev'.msg.type \in {"file-chunk", "file-complete"} /\ ev'.msg.fileId = x)
                => /\ \A y \in InIds \ {x} : TransferKept(y)
                   /\ SessionKept
       /\ checkTransferTimeout
             => /\ \A y \in DOMAIN receivingFiles :
                      now - receivingFiles[y].lastUpdate <= TRANSFER_TIMEOUT
                         => TransferKept(y)
                /\ DOMAIN receivingFiles' \subseteq DOMAIN receivingFiles
                /\ SessionKept]_vars

\* the sweep purged X while Y was half received
C19_Witness ==
    /\ ev.op = "sweep"
    /\ inStatus["X"] = "timeout"
    /\ "X" \notin DOMAIN receivingFiles
    /\ "Y" \in DOMAIN receivingFiles
    /\ receivingFiles["Y"].receivedSize = 1
    /\ connection # 0
    /\ \A k \in TimerKinds : timers[k]

\* ----- C20 (SpecDispatch)
\* C20: every dispatched inbound message, whatever its kind, sets
\* lastHeartbeat to the current time; a heartbeat or a message of an unknown
\* kind changes nothing else: no transfer created, changed or removed, no
\* list element touched, nothing delivered, no notice, the session as it was.
C20_EveryMessageRefreshes ==
    [][ev'.op = "data"
          => /\ lastHeartbeat' = now
             /\ ev'.msg.type \in {"heartbeat", "unknown"}
                   => /\ UNCHANGED <<inVars, sessVars, timers, live, outVars, notified>>
                      /\ ev'.toast = <<>>]_vars

\* a message of an unknown kind refreshed the timestamp after the clock had
\* advanced, with a transfer in flight
C20_Witness ==
    /\ ev.op = "data"
    /\ ev.msg.type = "unknown"
    /\ now > 1
    /\ lastHeartbeat = now
    /\ "X" \in DOMAIN receivingFiles
    /\ receivingFiles["X"].lastUpdate < now

\* ----- C21 (SpecSession)
\* the step performed resetConnection: the globals null, the timer handles
\* cleared, no inbound transfer tracked, the lists empty
TornDown ==
    /\ connection' = 0
    /\ peer' = 0
    /\ \A k \in TimerKinds : ~timers'[k] /\ live'[k] = 0
    /\ receivingFiles' = EmptyMap
    /\ \A f \in InIds : inBar'[f] = NoBar
    /\ \A f \in OutIds : outBar'[f] = NoBar

\* C21: when the page comes to the foreground while `connection` is set and
\* its channel reports open, exactly one heartbeat is handed to that channel;
\* if that send throws, the same step tears the session down and shows the
\* notice; if it succeeds, the session, its timers and the transfers are
\* left as they were and nothing is shown.
C21_ForegroundProbe ==
    [][(/\ ev'.op = "visibility"
        /\ connection # 0
        /\ chan[connection] = "open")
          => /\ Len(ev'.sent) = 1
             /\ ev'.sent[1].msg.type = "heartbeat"
             /\ ev'.sent[1].chan = connection
             /\ IF ev'.sent[1].ok
                THEN /\ UNCHANGED <<sessVars, timerVars, outVars, inVars, notified>>
                     /\ ev'.toast = <<>>
                ELSE /\ TornDown
                     /\ ev'.toast = <<"connectionLostReconnect">>]_vars

\* the probe threw on a channel that still reports open, before the liveness
\* check could have fired (no silence yet), and the session is gone
C21_Witness ==
    /\ ev.op = "visibility"
    /\ ev.sent # <<>>
    /\ ~ev.sent[1].ok
    /\ chan[ev.sent[1].chan] = "open"
    /\ now - lastHeartbeat <= HEARTBEAT_TIMEOUT
    /\ connection = 0
    /\ peer = 0
    /\ \A k \in TimerKinds : ~timers[k]

\* ----- C22 (SpecSession)
\* the step called startHeartbeat (its only caller: the channel's 'open' handler)
StartCalled == ev'.op = "conn.open"

\* the step called stopHeartbeat and not startHeartbeat (through
\* resetConnection, its only other caller; every caller shows a notice)
StopCalled ==
    \/ ev'.op \in {"peer.error", "conn.close", "disconnect"}
    \/ ev'.op \in {"check", "visibility"} /\ ev'.toast # <<>>

\* C22: after any sequence of startHeartbeat and stopHeartbeat calls each
\* kind of interval (ping, liveness check, sweep) is live exactly once if the
\* last call was startHeartbeat and not at all if it was stopHeartbeat; a
\* stopHeartbeat with nothing started, or repeated, changes nothing.
C22_OneTimerPerKind ==
    [][/\ StartCalled => \A k \in TimerKinds : live'[k] = 1 /\ timers'[k]
       /\ StopCalled => \A k \in TimerKinds : live'[k] = 0 /\ ~timers'[k]
       /\ (StopCalled /\ \A k \in TimerKinds : live[k] = 0)
             => live' = live /\ timers' = timers
       /\ ~(StartCalled \/ StopCalled) => live' = live /\ timers' = timers]_vars

\* startHeartbeat ran a second time with the intervals of the first still
\* live (a second channel opened), and one interval of each kind is live
C22_Witness ==
    /\ ev.op = "conn.open"
    /\ Cardinality({c \in ChanIds : chan[c] = "open"}) = 2
    /\ \A k \in TimerKinds : live[k] = 1 /\ timers[k]

\* ----- C23 (SpecOut)
\* the step handed a file-chunk or file-complete of transfer f to an open
\* channel
HandsOver(f) ==
    \E k \in DOMAIN ev'.sent :
        /\ ev'.sent[k].ok
        /\ chan[ev'.sent[k].chan] = "open"
        /\ ev'.sent[k].msg.type \in {"file-chunk", "file-complete"}
        /\ ev'.sent[k].msg.fileId = f

\* C23: every message of an outbound transfer goes to the channel of its
\* file-meta: a send loop that was suspended when its session was torn down
\* (it runs on, its list element wiped by resetConnection) hands no
\* file-chunk or file-complete to the channel of a session set up later.
C23_SameChannel ==
    [][\A f \in OutIds : (Running(f) /\ outBar[f] = NoBar) => ~HandsOver(f)]_vars

\* ----- C24 (SpecDeliveryFair)
\* the receiver holds the artifact of transfer f, byte for byte, and tracks
\* f no longer
DeliveredIntact(f) ==
    /\ WireId(f) \in DOMAIN completedFiles
    /\ completedFiles[WireId(f)].blob = sends[f].file
    /\ WireId(f) \notin DOMAIN receivingFiles

\* C24: over a FIFO channel that stays open, with the send loops, the
\* dispatch and the timers scheduled fairly and no gap between messages of a
\* transfer longer than TRANSFER_TIMEOUT, every sendFile that was started
\* leads to its artifact completed at the receiver with the bytes sent and no
\* tracking entry left, for good; and the receiver completes each fileId once.
C24_EndToEndDelivery ==
    /\ \A f \in OutIds : (sends[f].pc # "idle") ~> [](DeliveredIntact(f))
    /\ [][\A x \in InIds :
             (ev'.msg = FileCompleteMsg(x) /\ ev'.toast # <<>>)
                => x \notin DOMAIN completedFiles]_vars

\* two files sent at once, their messages interleaved on the wire, both
\* delivered intact after the clock advanced during the transfer
C24_Witness ==
    /\ \A f \in OutIds : Len(sends[f].file) = MaxFileSize /\ DeliveredIntact(f)
    /\ \E k \in 1..(Len(sendLog) - 1) :
          sendLog[k].fileId # sendLog[k + 1].fileId /\ sendLog[k].type = "file-chunk"
    /\ now > 1
    /\ delivered = Len(sendLog)

====
